---- MODULE Spec2Model ----
(***************************************************************************)
(* WebrtcOutput: the sink that forwards encoded frames to the eyecam_net   *)
(* transport (src/output/webrtc_output.cpp, src/libs/eyecam_net.h), and    *)
(* the earlier variant of its constructor (src/unnamed/part_000).          *)
(*                                                                         *)
(* The transport library is external: each of its four entry points is     *)
(* modelled as an entry appended to the log `calls`, its return value      *)
(* drawn nondeterministically by the action that makes the call.           *)
(*                                                                         *)
(* uint64_t values are kept at their full width as four 16-bit limbs,      *)
(* least significant first, so that the subtraction of line 24 wraps       *)
(* modulo 2^64 exactly as the code's does.                                 *)
(***************************************************************************)
EXTENDS Integers, Sequences, FiniteSets, TLC

VARIABLES phase, options, net, last_timestamp_us, calls, log, delivered, exit_status

vars == <<phase, options, net, last_timestamp_us, calls, log, delivered, exit_status>>

----------------------------------------------------------------------------
(* Bounds and input sets *)

\* Number of frames the pipeline delivers in one run.
MaxFrames == 3

\* Values of options->codec: the supported one and two others.
Codecs == {"h264", "mjpeg", "yuv420"}

\* Values of options->webrtc (the rendezvous name).
Names == {"eyecam"}

\* Timestamps (int64_t) the pipeline may hand over, in microseconds.
Timestamps == {-1, 0, 33000, 66000}

\* (mem, size) pairs of the delivered buffers.
Payloads == {[mem |-> "m1", size |-> 1], [mem |-> "m2", size |-> 2]}

\* flags argument of outputBuffer (unused by the code).
Flags == {0, 1}

\* int results of eyecam_net_wait_for_connection and eyecam_net_write_video.
IntResults == {0, 1}

----------------------------------------------------------------------------
(* uint64_t arithmetic *)

Limb == 65536

NumLimbs == 4

U64 == [1..NumLimbs -> 0..(Limb - 1)]

U64Zero == [i \in 1..NumLimbs |-> 0]

RECURSIVE SubLimbs(_, _, _, _)
SubLimbs(a, b, i, borrow) ==
    IF i > NumLimbs THEN <<>>
    ELSE LET d == a[i] - b[i] - borrow
         IN  <<d % Limb>> \o SubLimbs(a, b, i + 1, IF d < 0 THEN 1 ELSE 0)

\* a - b in uint64_t, i.e. modulo 2^64.
U64Sub(a, b) == SubLimbs(a, b, 1, 0)

RECURSIVE AddLimbs(_, _, _, _)
AddLimbs(a, b, i, carry) ==
    IF i > NumLimbs THEN <<>>
    ELSE LET s == a[i] + b[i] + carry
         IN  <<s % Limb>> \o AddLimbs(a, b, i + 1, s \div Limb)

\* a + b in uint64_t, i.e. modulo 2^64.
U64Add(a, b) == AddLimbs(a, b, 1, 0)

\* The limbs of a natural number below 2^31.
NatToU64(n) == <<n % Limb, (n \div Limb) % Limb, 0, 0>>

\* Conversion int64_t -> uint64_t (two's complement: a negative value t
\* becomes 2^64 + t).
ToU64(t) == IF t >= 0 THEN NatToU64(t) ELSE U64Sub(U64Zero, NatToU64(-t))

\* a < b as unsigned 64-bit numbers.
RECURSIVE LessFrom(_, _, _)
LessFrom(a, b, i) ==
    IF i = 0 THEN FALSE
    ELSE IF a[i] # b[i] THEN a[i] < b[i]
    ELSE LessFrom(a, b, i - 1)

U64Less(a, b) == LessFrom(a, b, NumLimbs)

----------------------------------------------------------------------------
(* The transport library, as seen through its call log *)

\* The session object eyecam_net_init returns, and the value of net.state
\* before EyecamNet's constructor has run.
Session == "session"
NoSession == "none"

InitCall(ret) == [fn |-> "init", state |-> ret]
WaitCall(state, name, ret) ==
    [fn |-> "wait_for_connection", state |-> state, name |-> name, ret |-> ret]
WriteCall(state, len, data, duration_us, ret) ==
    [fn |-> "write_video", state |-> state, len |-> len, data |-> data,
     duration_us |-> duration_us, ret |-> ret]
DeinitCall(state) == [fn |-> "deinit", state |-> state]

\* The subsequence of the calls to fn.
CallsTo(fn) == SelectSeq(calls, LAMBDA c : c.fn = fn)

Info(msg) == [level |-> "info", msg |-> msg]
Error(msg) == [level |-> "error", msg |-> msg]

\* Exit status while the process is running.
Running == -1

ExitStatus == 51

----------------------------------------------------------------------------
(* Initial state: the options object exists, the adapter does not. *)

Init ==
    /\ phase = "Uninitialized"
    /\ options \in [codec : Codecs, webrtc : Names]
    /\ net = [state |-> NoSession]
    /\ last_timestamp_us = U64Zero
    /\ calls = <<>>
    /\ log = <<>>
    /\ delivered = <<>>
    /\ exit_status = Running

----------------------------------------------------------------------------
(* EyecamNet *)

\* EyecamNet::EyecamNet: the calls made and the resulting object.
EyecamNetCtor == [calls |-> <<InitCall(Session)>>, net |-> [state |-> Session]]

\* A destructor that releases nothing.
EyecamNetDtor_NoRelease(n) == <<>>

\* EyecamNet::~EyecamNet: the calls made when n is destroyed.
EyecamNetDtor(n) == <<DeinitCall(n.state)>>

----------------------------------------------------------------------------
(* WebrtcOutput::WebrtcOutput(options), src/output/webrtc_output.cpp.      *)
(* connected is the value eyecam_net_wait_for_connection returns if it is  *)
(* called.                                                                 *)

\* A constructor that treats the codec mismatch as fatal too.
Construct_ExitOnMismatch(connected) ==
    /\ phase = "Uninitialized"
    /\ LET e == EyecamNetCtor IN
       /\ net' = e.net
       /\ last_timestamp_us' = U64Zero
       /\ IF options.codec # "h264"
          THEN /\ calls' = calls \o e.calls
               /\ log' = log \o <<Error("Webrtc only works with h264 for now. Sorry!")>>
               /\ phase' = "Exited"
               /\ exit_status' = ExitStatus
          ELSE /\ calls' = calls \o e.calls
                              \o <<WaitCall(e.net.state, options.webrtc, connected)>>
               /\ IF connected = 0
                  THEN /\ log' = log \o <<Info("Waiting for RTC connection"),
                                          Info("Connected!?"),
                                          Error("WebRTC connection failed. Shutting down.")>>
                       /\ phase' = "Exited"
                       /\ exit_status' = ExitStatus
                  ELSE /\ log' = log \o <<Info("Waiting for RTC connection"),
                                          Info("Connected!?")>>
                       /\ phase' = "Constructed"
                       /\ exit_status' = exit_status
    /\ UNCHANGED <<options, delivered>>

\* A constructor that asks for the connection a second time after a failure.
Construct_RetryOnFailure(connected) ==
    /\ phase = "Uninitialized"
    /\ LET e == EyecamNetCtor IN
       /\ last_timestamp_us' = U64Zero
       /\ IF options.codec # "h264"
          THEN /\ net' = e.net
               /\ calls' = calls \o e.calls
               /\ log' = log \o <<Error("Webrtc only works with h264 for now. Sorry!")>>
               /\ phase' = "Constructed"
               /\ exit_status' = exit_status
          ELSE /\ net' = e.net
               /\ calls' = calls \o e.calls
                              \o (IF connected = 0 THEN <<WaitCall(e.net.state, options.webrtc, connected),
                                   WaitCall(e.net.state, options.webrtc, connected)>>
                                ELSE <<WaitCall(e.net.state, options.webrtc, connected)>>)
               /\ IF connected = 0
                  THEN /\ log' = log \o <<Info("Waiting for RTC connection"),
                                          Info("Connected!?"),
                                          Error("WebRTC connection failed. Shutting down.")>>
                       /\ phase' = "Exited"
                       /\ exit_status' = ExitStatus
                  ELSE /\ log' = log \o <<Info("Waiting for RTC connection"),
                                          Info("Connected!?")>>
                       /\ phase' = "Constructed"
                       /\ exit_status' = exit_status
    /\ UNCHANGED <<options, delivered>>

\* A constructor that acquires the session only once the codec is accepted.
Construct_ValidateFirst(connected) ==
    /\ phase = "Uninitialized"
    /\ LET e == EyecamNetCtor IN
       /\ last_timestamp_us' = U64Zero
       /\ IF options.codec # "h264"
          THEN /\ net' = net
               /\ calls' = calls
               /\ log' = log \o <<Error("Webrtc only works with h264 for now. Sorry!")>>
               /\ phase' = "Constructed"
               /\ exit_status' = exit_status
          ELSE /\ net' = e.net
               /\ calls' = calls \o e.calls
                              \o <<WaitCall(e.net.state, options.webrtc, connected)>>
               /\ IF connected = 0
                  THEN /\ log' = log \o <<Info("Waiting for RTC connection"),
                                          Info("Connected!?"),
                                          Error("WebRTC connection failed. Shutting down.")>>
                       /\ phase' = "Exited"
                       /\ exit_status' = ExitStatus
                  ELSE /\ log' = log \o <<Info("Waiting for RTC connection"),
                                          Info("Connected!?")>>
                       /\ phase' = "Constructed"
                       /\ exit_status' = exit_status
    /\ UNCHANGED <<options, delivered>>

Construct(connected) ==
    /\ phase = "Uninitialized"
    /\ LET e == EyecamNetCtor IN
       /\ net' = e.net
       /\ last_timestamp_us' = U64Zero
       /\ IF options.codec # "h264"
          THEN /\ calls' = calls \o e.calls
               /\ log' = log \o <<Error("Webrtc only works with h264 for now. Sorry!")>>
               /\ phase' = "Constructed"
               /\ exit_status' = exit_status
          ELSE /\ calls' = calls \o e.calls
                              \o <<WaitCall(e.net.state, options.webrtc, connected)>>
               /\ IF connected = 0
                  THEN /\ log' = log \o <<Info("Waiting for RTC connection"),
                                          Info("Connected!?"),
                                          Error("WebRTC connection failed. Shutting down.")>>
                       /\ phase' = "Exited"
                       /\ exit_status' = ExitStatus
                  ELSE /\ log' = log \o <<Info("Waiting for RTC connection"),
                                          Info("Connected!?")>>
                       /\ phase' = "Constructed"
                       /\ exit_status' = exit_status
    /\ UNCHANGED <<options, delivered>>

(* The earlier variant of the constructor, src/unnamed/part_000.           *)
ConstructEarlier(connected) ==
    /\ phase = "Uninitialized"
    /\ LET e == EyecamNetCtor IN
       /\ net' = e.net
       /\ last_timestamp_us' = U64Zero
       /\ IF options.codec # "h264"
          THEN /\ calls' = calls \o e.calls
               /\ log' = log \o <<Error("Webrtc only works with h264 for now. Sorry!")>>
          ELSE /\ calls' = calls \o e.calls
                              \o <<WaitCall(e.net.state, options.webrtc, connected)>>
               /\ log' = log \o <<Info("Waiting for RTC connection"),
                                  Info("Connected!?")>>
    /\ phase' = "Constructed"
    /\ UNCHANGED <<options, delivered, exit_status>>

----------------------------------------------------------------------------
(* WebrtcOutput::outputBuffer(mem, size, timestamp_us, flags).             *)
(* success is the value eyecam_net_write_video returns.                    *)

\* A duration that ignores the previous frame.
Duration_Absolute(timestamp_us, last) == ToU64(timestamp_us)

\* A duration with the operands of the subtraction exchanged.
Duration_Reversed(timestamp_us, last) == U64Sub(last, ToU64(timestamp_us))

\* The duration argument of line 24: timestamp_us - last_timestamp_us, the
\* int64_t operand converted to uint64_t.
Duration(timestamp_us, last) == U64Sub(ToU64(timestamp_us), last)

\* An outputBuffer that advances last_timestamp_us only after a successful write.
OutputBuffer_KeepOnFailure(mem, size, timestamp_us, flags, success) ==
    /\ phase = "Constructed"
    /\ Len(delivered) < MaxFrames
    /\ delivered' = Append(delivered,
                           [mem |-> mem, size |-> size, timestamp_us |-> timestamp_us])
    /\ calls' = Append(calls, WriteCall(net.state, size, mem,
                                        Duration(timestamp_us, last_timestamp_us),
                                        success))
    /\ last_timestamp_us' = IF success = 0 THEN last_timestamp_us
                            ELSE ToU64(timestamp_us)
    /\ log' = IF success = 0 THEN Append(log, Error("Failed to send samples?"))
              ELSE log
    /\ UNCHANGED <<phase, options, net, exit_status>>

\* An outputBuffer that retries a failed write once.
OutputBuffer_RetryOnFailure(mem, size, timestamp_us, flags, success) ==
    /\ phase = "Constructed"
    /\ Len(delivered) < MaxFrames
    /\ delivered' = Append(delivered,
                           [mem |-> mem, size |-> size, timestamp_us |-> timestamp_us])
    /\ LET w == WriteCall(net.state, size, mem,
                          Duration(timestamp_us, last_timestamp_us), success)
       IN  calls' = IF success = 0 THEN calls \o <<w, w>> ELSE Append(calls, w)
    /\ last_timestamp_us' = ToU64(timestamp_us)
    /\ log' = IF success = 0 THEN Append(log, Error("Failed to send samples?"))
              ELSE log
    /\ UNCHANGED <<phase, options, net, exit_status>>

\* An outputBuffer that treats a failed write like a failed connection.
OutputBuffer_FatalOnFailure(mem, size, timestamp_us, flags, success) ==
    /\ phase = "Constructed"
    /\ Len(delivered) < MaxFrames
    /\ delivered' = Append(delivered,
                           [mem |-> mem, size |-> size, timestamp_us |-> timestamp_us])
    /\ calls' = Append(calls, WriteCall(net.state, size, mem,
                                        Duration(timestamp_us, last_timestamp_us),
                                        success))
    /\ last_timestamp_us' = ToU64(timestamp_us)
    /\ log' = IF success = 0 THEN Append(log, Error("Failed to send samples?"))
              ELSE log
    /\ phase' = IF success = 0 THEN "Exited" ELSE phase
    /\ exit_status' = IF success = 0 THEN ExitStatus ELSE exit_status
    /\ UNCHANGED <<options, net>>

OutputBuffer(mem, size, timestamp_us, flags, success) ==
    /\ phase = "Constructed"
    /\ Len(delivered) < MaxFrames
    /\ delivered' = Append(delivered,
                           [mem |-> mem, size |-> size, timestamp_us |-> timestamp_us])
    /\ calls' = Append(calls, WriteCall(net.state, size, mem,
                                        Duration(timestamp_us, last_timestamp_us),
                                        success))
    /\ last_timestamp_us' = ToU64(timestamp_us)
    /\ log' = IF success = 0 THEN Append(log, Error("Failed to send samples?"))
              ELSE log
    /\ UNCHANGED <<phase, options, net, exit_status>>

----------------------------------------------------------------------------
(* outputBuffer over the whole range of int64_t.  A timestamp is given by  *)
(* its sign and its magnitude (a uint64_t), so that INT64_MIN and          *)
(* INT64_MAX can be delivered next to the small values of Timestamps.      *)

I64(neg, mag) == [neg |-> neg, mag |-> mag]

\* 2^63 and 2^63 - 1 as limbs.
Pow63 == <<0, 0, 0, 32768>>
Int64MaxMag == <<65535, 65535, 65535, 32767>>

\* INT64_MIN, -1, 0, 33000 and INT64_MAX.
WideTimestamps ==
    {I64(TRUE, Pow63), I64(TRUE, NatToU64(1)), I64(FALSE, U64Zero),
     I64(FALSE, NatToU64(33000)), I64(FALSE, Int64MaxMag)}

\* Conversion int64_t -> uint64_t of a sign-magnitude value.
WideToU64(t) == IF t.neg THEN U64Sub(U64Zero, t.mag) ELSE t.mag

\* A duration that is cut off at zero when the timestamp is below the last one.
DurationWide_Clamped(timestamp_us, last) ==
    IF U64Less(WideToU64(timestamp_us), last) THEN U64Zero
    ELSE U64Sub(WideToU64(timestamp_us), last)

\* Line 24's duration argument for a sign-magnitude timestamp.
DurationWide(timestamp_us, last) == U64Sub(WideToU64(timestamp_us), last)

OutputBufferWide(mem, size, timestamp_us, flags, success) ==
    /\ phase = "Constructed"
    /\ Len(delivered) < MaxFrames
    /\ delivered' = Append(delivered,
                           [mem |-> mem, size |-> size, timestamp_us |-> timestamp_us])
    /\ calls' = Append(calls, WriteCall(net.state, size, mem,
                                        DurationWide(timestamp_us, last_timestamp_us),
                                        success))
    /\ last_timestamp_us' = WideToU64(timestamp_us)
    /\ log' = IF success = 0 THEN Append(log, Error("Failed to send samples?"))
              ELSE log
    /\ UNCHANGED <<phase, options, net, exit_status>>

----------------------------------------------------------------------------
(* outputBuffer in steps: the pipeline's call, the return of               *)
(* eyecam_net_write_video (line 24), and the rest of the body up to the    *)
(* return (lines 25-30).  The frame in hand is the last of delivered, and  *)
(* the local variable success is the result of the last call logged.       *)

Enter(mem, size, timestamp_us, flags) ==
    /\ phase = "Constructed"
    /\ Len(delivered) < MaxFrames
    /\ delivered' = Append(delivered,
                           [mem |-> mem, size |-> size, timestamp_us |-> timestamp_us])
    /\ phase' = "Writing"
    /\ UNCHANGED <<options, net, last_timestamp_us, calls, log, exit_status>>

WriteReturns(success) ==
    /\ phase = "Writing"
    /\ LET f == delivered[Len(delivered)]
       IN  calls' = Append(calls, WriteCall(net.state, f.size, f.mem,
                                            Duration(f.timestamp_us, last_timestamp_us),
                                            success))
    /\ phase' = "Written"
    /\ UNCHANGED <<options, net, last_timestamp_us, log, delivered, exit_status>>

\* A body that does not come back from a failed write.
Return_BlockOnFailure ==
    /\ phase = "Written"
    /\ calls[Len(calls)].ret # 0
    /\ last_timestamp_us' = ToU64(delivered[Len(delivered)].timestamp_us)
    /\ log' = log
    /\ phase' = "Constructed"
    /\ UNCHANGED <<options, net, calls, delivered, exit_status>>

Return ==
    /\ phase = "Written"
    /\ last_timestamp_us' = ToU64(delivered[Len(delivered)].timestamp_us)
    /\ log' = IF calls[Len(calls)].ret = 0
              THEN Append(log, Error("Failed to send samples?"))
              ELSE log
    /\ phase' = "Constructed"
    /\ UNCHANGED <<options, net, calls, delivered, exit_status>>

----------------------------------------------------------------------------
(* WebrtcOutput::~WebrtcOutput (implicit): destroys the member net.        *)

\* A destructor after which the adapter goes on receiving frames.
Destroy_StillUsable ==
    /\ phase = "Constructed"
    /\ Len(CallsTo("deinit")) = 0
    /\ calls' = calls \o EyecamNetDtor(net)
    /\ UNCHANGED <<phase, options, net, last_timestamp_us, log, delivered, exit_status>>

Destroy ==
    /\ phase = "Constructed"
    /\ calls' = calls \o EyecamNetDtor(net)
    /\ phase' = "Destroyed"
    /\ UNCHANGED <<options, net, last_timestamp_us, log, delivered, exit_status>>

----------------------------------------------------------------------------

Deliver ==
    \E p \in Payloads, t \in Timestamps, f \in Flags, success \in IntResults :
        OutputBuffer(p.mem, p.size, t, f, success)

Next ==
    \/ \E connected \in IntResults : Construct(connected)
    \/ Deliver
    \/ Destroy

Spec == Init /\ [][Next]_vars

NextEarlier ==
    \/ \E connected \in IntResults : ConstructEarlier(connected)
    \/ Deliver
    \/ Destroy

\* The build whose constructor is the earlier variant.
SpecEarlier == Init /\ [][NextEarlier]_vars

DeliverWide ==
    \E p \in Payloads, t \in WideTimestamps, f \in Flags, success \in IntResults :
        OutputBufferWide(p.mem, p.size, t, f, success)

NextWide ==
    \/ \E connected \in IntResults : Construct(connected)
    \/ DeliverWide
    \/ Destroy

\* The adapter fed with timestamps from the whole range of int64_t.
SpecWide == Init /\ [][NextWide]_vars

\* The buffers delivered under SpecLive: outputBuffer never looks at mem or
\* size, so one buffer stands for all of them there.
LivePayloads == {[mem |-> "m1", size |-> 1]}

Accept ==
    \E p \in LivePayloads, t \in Timestamps, f \in Flags : Enter(p.mem, p.size, t, f)

WriteCompletes == \E success \in IntResults : WriteReturns(success)

NextLive ==
    \/ \E connected \in IntResults : Construct(connected)
    \/ Accept
    \/ WriteCompletes
    \/ Return
    \/ Destroy

\* outputBuffer in steps.  Every eyecam_net_write_video call returns, and
\* the thread inside outputBuffer runs on to its return.
SpecLive ==
    Init /\ [][NextLive]_vars /\ WF_vars(WriteCompletes) /\ WF_vars(Return)

----------------------------------------------------------------------------
(* The adapter states of the design *)

Writes == CallsTo("write_video")
Waits == CallsTo("wait_for_connection")
Deinits == CallsTo("deinit")

\* Negotiation was invoked and reported success / failure.
Connected == \E i \in 1..Len(calls) :
                calls[i].fn = "wait_for_connection" /\ calls[i].ret # 0
ConnectionFailed == \E i \in 1..Len(calls) :
                       calls[i].fn = "wait_for_connection" /\ calls[i].ret = 0

Streaming == phase = "Constructed" /\ options.codec = "h264" /\ Connected
Disabled == phase \in {"Constructed", "Destroyed"} /\ options.codec # "h264"

TypeOK ==
    /\ phase \in {"Uninitialized", "Constructed", "Writing", "Written",
                 "Exited", "Destroyed"}
    /\ options \in [codec : Codecs, webrtc : Names]
    /\ net.state \in {NoSession, Session}
    /\ last_timestamp_us \in U64
    /\ Len(delivered) <= MaxFrames
    /\ exit_status \in {Running, ExitStatus}

----------------------------------------------------------------------------
(* Properties *)

\* The adapter reached Streaming (and may have been destroyed since).
WasStreaming == phase \in {"Constructed", "Destroyed"}
                /\ options.codec = "h264" /\ Connected

\* Timestamp of the n-th delivered frame; the baseline 0 for n = 0.
TimestampOf(n) == IF n = 0 THEN 0 ELSE delivered[n].timestamp_us

FailedWrites == SelectSeq(Writes, LAMBDA c : c.ret = 0)
SendErrors == SelectSeq(log, LAMBDA l : l = Error("Failed to send samples?"))

\* C1: an adapter constructed with a codec other than "h264" makes no
\* eyecam_net_write_video call, whatever frames are delivered to it.
C1_DisabledNeverWrites == Disabled => Len(Writes) = 0

\* C2: on a streaming adapter the duration passed for frame n is
\* t_n - t_{n-1} (as a uint64_t, so modulo 2^64), with t_0's predecessor 0;
\* for a non-negative difference that is the difference itself.
C2_DurationIsDelta ==
    WasStreaming =>
        /\ Len(Writes) = Len(delivered)
        /\ \A n \in 1..Len(Writes) :
              LET d == TimestampOf(n) - TimestampOf(n - 1)
              IN  /\ Writes[n].duration_us = ToU64(d)
                  /\ d >= 0 => Writes[n].duration_us = NatToU64(d)

C2_Witness ==
    /\ WasStreaming
    /\ Len(Writes) = 3
    /\ <<TimestampOf(1), TimestampOf(2), TimestampOf(3)>> = <<0, 33000, 66000>>
    /\ <<Writes[1].duration_us, Writes[2].duration_us, Writes[3].duration_us>>
         = <<NatToU64(0), NatToU64(33000), NatToU64(33000)>>

\* C3: a failed write of frame n still sets last_timestamp_us to t_n, and
\* the duration passed for frame n+1 is t_{n+1} - t_n.
C3_FailureStillAdvances ==
    /\ Len(Writes) = Len(delivered)
    /\ \A n \in 1..Len(Writes) :
          Writes[n].ret = 0 =>
              /\ n = Len(Writes) => last_timestamp_us = ToU64(TimestampOf(n))
              /\ n < Len(Writes) =>
                    Writes[n + 1].duration_us
                        = ToU64(TimestampOf(n + 1) - TimestampOf(n))

C3_Witness ==
    \E n \in 1..(Len(Writes) - 1) :
        /\ n <= Len(delivered) - 1
        /\ Writes[n].ret = 0
        /\ TimestampOf(n) = 33000 /\ TimestampOf(n + 1) = 66000
        /\ TimestampOf(n - 1) = 0
        /\ Writes[n + 1].duration_us = NatToU64(33000)

\* C4: when eyecam_net_wait_for_connection reports failure the process
\* exits with status 51 and eyecam_net_write_video is never called; for
\* every constructor in the source.
C4_ConnectionFailureExits ==
    ConnectionFailed =>
        /\ phase = "Exited"
        /\ exit_status = ExitStatus
        /\ Len(Writes) = 0

\* C5: an adapter whose construction completed releases its session
\* exactly once, when it is destroyed: no release before, one after.
C5_ReleasedOnceOnDestroy ==
    /\ phase = "Constructed" => Len(Deinits) = 0
    /\ phase = "Destroyed" =>
          /\ Len(Deinits) = 1
          /\ Deinits[1].state = net.state
          /\ calls[Len(calls)].fn = "deinit"

C5_Witness ==
    /\ phase = "Destroyed"
    /\ Len(Deinits) = 1
    /\ Len(Writes) = MaxFrames

\* C6: every acquired session is released exactly once after negotiation
\* has resolved, also when negotiation failed and the constructor exits.
C6_ReleasedAfterNegotiation ==
    (phase \in {"Destroyed", "Exited"} /\ Len(CallsTo("init")) = 1) =>
        /\ Len(Deinits) = 1
        /\ \A i \in 1..Len(calls) :
              calls[i].fn = "wait_for_connection" =>
                  \E j \in (i + 1)..Len(calls) : calls[j].fn = "deinit"

\* C7: on a streaming adapter the write calls are the delivered frames:
\* one write per frame, same payload, same order.
C7_WritesMirrorFrames ==
    WasStreaming =>
        /\ Len(Writes) = Len(delivered)
        /\ \A n \in 1..Len(Writes) :
              /\ Writes[n].data = delivered[n].mem
              /\ Writes[n].len = delivered[n].size
              /\ Writes[n].state = net.state

C7_Witness ==
    /\ WasStreaming
    /\ Len(delivered) = 3
    /\ <<delivered[1].mem, delivered[2].mem, delivered[3].mem>> = <<"m2", "m1", "m2">>
    /\ <<Writes[1].data, Writes[2].data, Writes[3].data>> = <<"m2", "m1", "m2">>
    /\ Writes[2].ret = 0

\* C8: every eyecam_net_write_video call comes after a call of
\* eyecam_net_wait_for_connection on the same session that returned success.
C8_WriteOnlyAfterConnect ==
    \A i \in 1..Len(calls) :
        calls[i].fn = "write_video" =>
            \E j \in 1..(i - 1) :
                /\ calls[j].fn = "wait_for_connection"
                /\ calls[j].state = calls[i].state
                /\ calls[j].ret # 0

\* C9: the process is terminated if and only if
\* eyecam_net_wait_for_connection was called and returned failure; neither
\* a codec mismatch nor failed writes terminate it.
C9_ExitIffConnectionFailed ==
    /\ phase = "Exited" <=> ConnectionFailed
    /\ exit_status # Running <=> ConnectionFailed
    /\ options.codec # "h264" => ~ConnectionFailed

C9_Witness ==
    /\ phase = "Exited"
    /\ exit_status = ExitStatus
    /\ ConnectionFailed
    /\ Len(Waits) = 1

\* A streaming adapter that has seen failed writes and no termination.
C9_WitnessFailedWrites ==
    /\ Streaming
    /\ Len(FailedWrites) = MaxFrames
    /\ exit_status = Running

\* C10: a failed write leaves the adapter streaming: each failure is
\* logged, and the next delivered frame is written, after any number of
\* failures in a row.
C10_StillStreaming ==
    (options.codec = "h264" /\ Connected /\ phase # "Destroyed") =>
        /\ Streaming
        /\ Len(SendErrors) = Len(FailedWrites)

C10_NextFrameWritten ==
    (Streaming /\ Len(FailedWrites) > 0 /\ Len(delivered') = Len(delivered) + 1) =>
        /\ Streaming'
        /\ Len(Writes') = Len(Writes) + 1
        /\ Writes'[Len(Writes')].data = delivered'[Len(delivered')].mem

C10_FailureNotFatal == []C10_StillStreaming /\ [][C10_NextFrameWritten]_vars

C10_Witness ==
    /\ Streaming
    /\ Len(Writes) = 3
    /\ Writes[1].ret = 0 /\ Writes[2].ret = 0
    /\ Len(SendErrors) >= 2

Inits == CallsTo("init")

\* C11: eyecam_net_wait_for_connection is called exactly once by an adapter
\* whose codec is "h264" and never by any other; it is not called again
\* after a failure, nor once frames have been written.
C11_NegotiatedOnce ==
    /\ phase = "Uninitialized" => Len(Waits) = 0
    /\ phase # "Uninitialized" =>
          Len(Waits) = IF options.codec = "h264" THEN 1 ELSE 0
    /\ \A i \in 1..Len(calls) :
          calls[i].fn = "wait_for_connection" =>
              \A j \in 1..(i - 1) : calls[j].fn # "write_video"

C11_Witness ==
    /\ Streaming
    /\ Len(Waits) = 1
    /\ Len(Writes) = MaxFrames
    /\ Len(FailedWrites) = 1

\* C12 (as claimed): eyecam_net_init is called only after the codec has
\* been validated, so an adapter with a mismatched codec never calls it.
C12_InitOnlyAfterValidation ==
    options.codec # "h264" => Len(Inits) = 0

\* C12 (amended): every construction calls eyecam_net_init exactly once,
\* as its first transport call and whatever the codec; an adapter with a
\* mismatched codec holds an acquired session and never negotiates, one
\* with "h264" negotiates right after the acquisition.
C12_InitBeforeValidation ==
    phase # "Uninitialized" =>
        /\ Len(Inits) = 1
        /\ calls[1] = InitCall(net.state)
        /\ net.state = Session
        /\ options.codec # "h264" => Len(Waits) = 0
        /\ options.codec = "h264" =>
              /\ Len(calls) >= 2
              /\ calls[2].fn = "wait_for_connection"
              /\ calls[2].state = net.state

C12_Witness ==
    /\ phase = "Constructed"
    /\ options.codec = "mjpeg"
    /\ calls = <<InitCall(Session)>>
    /\ log = <<Error("Webrtc only works with h264 for now. Sorry!")>>

\* C16: every eyecam_net_wait_for_connection and eyecam_net_write_video
\* call on a session comes after the eyecam_net_init call that returned it
\* and before any eyecam_net_deinit call on it.
C16_UseWithinLifetime ==
    \A i \in 1..Len(calls) :
        calls[i].fn \in {"wait_for_connection", "write_video"} =>
            /\ \E j \in 1..(i - 1) : calls[j] = InitCall(calls[i].state)
            /\ \A j \in 1..(i - 1) : calls[j].fn # "deinit"

C16_Witness ==
    /\ phase = "Destroyed"
    /\ Len(calls) = 4
    /\ <<calls[1].fn, calls[2].fn, calls[3].fn, calls[4].fn>>
         = <<"init", "wait_for_connection", "write_video", "deinit">>

\* The sum modulo 2^64 of the durations passed by the write calls ws.
RECURSIVE SumDurations(_)
SumDurations(ws) ==
    IF ws = <<>> THEN U64Zero
    ELSE U64Add(SumDurations(SubSeq(ws, 1, Len(ws) - 1)), ws[Len(ws)].duration_us)

\* C14: after any sequence of deliveries, whatever the results of the
\* writes, last_timestamp_us is the timestamp of the most recent frame (0
\* if there is none) and the durations passed so far add up, modulo 2^64,
\* to last_timestamp_us.
C14_DurationsTelescope ==
    phase \in {"Constructed", "Destroyed"} =>
        /\ last_timestamp_us = ToU64(TimestampOf(Len(delivered)))
        /\ SumDurations(Writes) = last_timestamp_us

C14_Witness ==
    /\ phase = "Constructed"
    /\ Len(delivered) = 3
    /\ <<TimestampOf(1), TimestampOf(2), TimestampOf(3)>> = <<66000, -1, 33000>>
    /\ Writes[2].ret = 0
    /\ last_timestamp_us = NatToU64(33000)
    /\ SumDurations(Writes) = NatToU64(33000)

\* Sign-magnitude timestamp of the n-th delivered frame under SpecWide.
WideTimestampOf(n) == IF n = 0 THEN I64(FALSE, U64Zero) ELSE delivered[n].timestamp_us

U64Leq(a, b) == ~U64Less(b, a)

\* a < b as int64_t values.
I64Less(a, b) ==
    IF a.neg # b.neg THEN a.neg
    ELSE IF a.neg THEN U64Less(b.mag, a.mag)
    ELSE U64Less(a.mag, b.mag)

\* b - a for a < b, as a natural number (it is below 2^64).
Gap(a, b) ==
    IF a.neg # b.neg THEN U64Add(a.mag, b.mag)
    ELSE IF a.neg THEN U64Sub(a.mag, b.mag)
    ELSE U64Sub(b.mag, a.mag)

\* The first n timestamps are non-negative and non-decreasing.
Monotone(n) ==
    \A k \in 1..n : /\ ~WideTimestampOf(k).neg
                    /\ ~I64Less(WideTimestampOf(k), WideTimestampOf(k - 1))

\* C15 (as claimed): for a non-negative, non-decreasing stream every
\* duration lies in [0, t_n]; for a timestamp below the previous one the
\* duration is (t_n - t_{n-1}) mod 2^64 and is at least 2^63.
C15_WrapAtLeastPow63 ==
    /\ Len(Writes) = Len(delivered)
    /\ \A n \in 1..Len(Writes) :
          LET t == WideTimestampOf(n)
              p == WideTimestampOf(n - 1)
              d == Writes[n].duration_us
          IN  /\ Monotone(n) => U64Leq(d, t.mag)
              /\ I64Less(t, p) =>
                    /\ d = U64Sub(U64Zero, Gap(t, p))
                    /\ U64Leq(Pow63, d)

\* C15 (amended): as above, but the wrapped duration is at least 2^63
\* exactly when t_{n-1} - t_n <= 2^63 (as for any two non-negative
\* timestamps); it is never zero.
C15_WrapModulo ==
    /\ Len(Writes) = Len(delivered)
    /\ \A n \in 1..Len(Writes) :
          LET t == WideTimestampOf(n)
              p == WideTimestampOf(n - 1)
              d == Writes[n].duration_us
          IN  /\ Monotone(n) => U64Leq(d, t.mag)
              /\ I64Less(t, p) =>
                    /\ d = U64Sub(U64Zero, Gap(t, p))
                    /\ d # U64Zero
                    /\ U64Leq(Pow63, d) <=> U64Leq(Gap(t, p), Pow63)
                    /\ (t.neg = p.neg) => U64Leq(Pow63, d)

C15_Witness ==
    /\ Len(Writes) = 3
    /\ WideTimestampOf(1) = I64(FALSE, Int64MaxMag)
    /\ WideTimestampOf(2) = I64(FALSE, NatToU64(33000))
    /\ WideTimestampOf(3) = I64(TRUE, Pow63)
    /\ U64Leq(Pow63, Writes[2].duration_us)
    /\ U64Less(Writes[3].duration_us, Pow63)

\* The thread is inside outputBuffer.
InOutputBuffer == phase \in {"Writing", "Written"}

\* C13: given that every eyecam_net_write_video call returns, each frame
\* delivered to a streaming adapter gets its write attempt and outputBuffer
\* returns, whatever the results of the earlier writes; and after any
\* results the adapter accepts the next frame.
C13_FrameGetsWritten ==
    \A n \in 1..MaxFrames :
        (options.codec = "h264" /\ Connected /\ Len(delivered) >= n)
            ~> (Len(Writes) >= n /\ ~InOutputBuffer)

C13_NextFrameAccepted ==
    (Streaming /\ Len(delivered) < MaxFrames) => ENABLED Accept

C13_NeverStalls == C13_FrameGetsWritten /\ []C13_NextFrameAccepted

C13_Witness ==
    /\ Streaming
    /\ Len(delivered) = MaxFrames
    /\ Len(Writes) = MaxFrames
    /\ Len(FailedWrites) = MaxFrames - 1
    /\ Writes[1].ret = 0
    /\ Writes[MaxFrames].ret # 0

====
